---- MODULE Spec2Model ----
(***************************************************************************)
(* Model of the netflyx resource cache: get / preferStorage over           *)
(* window.localStorage, and the components (Banner, MovieRow) that call    *)
(* it from their effects.                                                  *)
(***************************************************************************)
EXTENDS Integers, Sequences, FiniteSets, TLC

\* ------------------------------------------------------------------ bounds
\* number of cache calls (component mounts) over the lifetime of the store
MaxCalls == 2
\* item ids that occur in the catalogue's answers
MaxId == 2
\* Math.random() is drawn from {0/RandDen, ..., (RandDen-1)/RandDen}
RandDen == 2

\* ------------------------------------------------------- JavaScript values
Undefined == [type |-> "undefined"]
Null == [type |-> "null"]
Obj(results) == [type |-> "object", results |-> results]
Str(text) == [type |-> "string", text |-> text]

\* the bodies the catalogue answers with: { results: [...] }
Bodies == {Obj(<<>>), Obj(<<1, 2>>)}

\* ------------------------------------------------------------- JSON texts
\* a text is a sequence of tokens
NumTok(n) == ToString(n)

RECURSIVE ArrayToks(_)
ArrayToks(items) ==
  IF items = <<>> THEN <<>>
  ELSE IF Len(items) = 1 THEN <<NumTok(Head(items))>>
  ELSE <<NumTok(Head(items)), ",">> \o ArrayToks(Tail(items))

\* JSON.stringify(value): the text, or undefined for undefined
JSONstringify(v) ==
  CASE v.type = "undefined" -> Undefined
    [] v.type = "null" -> Str(<<"null">>)
    [] v.type = "object" ->
         Str(<<"{", "\"results\"", ":", "[">> \o ArrayToks(v.results) \o <<"]", "}">>)

IsNumTok(t) == \E n \in 0..MaxId : NumTok(n) = t
NumOf(t) == CHOOSE n \in 0..MaxId : NumTok(n) = t

\* the elements of a text between "[" and "]": [ok, items]
RECURSIVE ParseItems(_)
ParseItems(toks) ==
  IF toks = <<>> THEN [ok |-> FALSE, items |-> <<>>]
  ELSE IF ~IsNumTok(Head(toks)) THEN [ok |-> FALSE, items |-> <<>>]
  ELSE IF Len(toks) = 1 THEN [ok |-> TRUE, items |-> <<NumOf(Head(toks))>>]
  ELSE IF toks[2] # "," THEN [ok |-> FALSE, items |-> <<>>]
  ELSE LET rest == ParseItems(SubSeq(toks, 3, Len(toks)))
       IN  [ok |-> rest.ok,
            items |-> IF rest.ok THEN <<NumOf(Head(toks))>> \o rest.items ELSE <<>>]

\* JSON.parse(text): [ok |-> TRUE, value] or a SyntaxError [ok |-> FALSE]
JSONparse(text) ==
  LET n == Len(text)
      bad == [ok |-> FALSE, value |-> Undefined]
  IN  IF text = <<"null">> THEN [ok |-> TRUE, value |-> Null]
      ELSE IF n >= 6 /\ SubSeq(text, 1, 4) = <<"{", "\"results\"", ":", "[">>
                     /\ SubSeq(text, n - 1, n) = <<"]", "}">>
      THEN IF n = 6 THEN [ok |-> TRUE, value |-> Obj(<<>>)]
           ELSE LET r == ParseItems(SubSeq(text, 5, n - 2))
                IN  IF r.ok THEN [ok |-> TRUE, value |-> Obj(r.items)] ELSE bad
      ELSE bad

\* -------------------------------------------------------- window.localStorage
\* the store is a function from the keys that have an entry to their texts
NoItem == [isNull |-> TRUE, text |-> <<>>]

\* localStorage.getItem(key): the text, or null if there is no entry
getItem(st, key) ==
  IF key \in DOMAIN st THEN [isNull |-> FALSE, text |-> st[key]] ELSE NoItem

\* the DOMString a value is converted to when it is stored
ToDOMString(x) == IF x.type = "undefined" THEN <<"undefined">> ELSE x.text

\* setItem that drops every other entry of the store
setItemClearing(st, key, x) == [k \in {key} |-> ToDOMString(x)]

\* localStorage.setItem(key, value)
setItem(st, key, x) ==
  [k \in DOMAIN st \cup {key} |-> IF k = key THEN ToDOMString(x) ELSE st[k]]

\* `if (stored)`: null and the empty string are falsy
Truthy(stored) == ~stored.isNull /\ stored.text # <<>>


\* ------------------------------------------------------------ the requests
\* the API endpoints; KEY stands for process.env.REACT_APP_TMDB_API_KEY
requests ==
  [fetchTrending |-> "/trending/all/week?api_key=KEY&language=en-US",
   fetchNetflixOriginals |-> "/discover/tv?api_key=KEY&with_networks=213",
   fetchTopRated |-> "/movie/top_rated?api_key=KEY&language=en-US",
   fetchActionMovies |-> "/discover/movie?api_key=KEY&with_genres=28",
   fetchComedyMovies |-> "/discover/movie?api_key=KEY&with_genres=35",
   fetchHorrorMovies |-> "/discover/movie?api_key=KEY&with_genres=28",
   fetchRomanceMovies |-> "/discover/movie?api_key=KEY&with_genres=10749",
   fetchDocumentaries |-> "/discover/movie?api_key=KEY&with_genres=99"]

\* the components App renders that call the cache, with the request of each
App ==
  <<[comp |-> "Banner", request |-> "fetchNetflixOriginals"],
    [comp |-> "NETFLIX ORIGINALS", request |-> "fetchNetflixOriginals"],
    [comp |-> "Trending Now", request |-> "fetchTrending"],
    [comp |-> "Top Rated", request |-> "fetchTopRated"],
    [comp |-> "Action Movies", request |-> "fetchActionMovies"],
    [comp |-> "Comedy Movies", request |-> "fetchComedyMovies"],
    [comp |-> "Horror Movies", request |-> "fetchHorrorMovies"],
    [comp |-> "Romance Movies", request |-> "fetchRomanceMovies"],
    [comp |-> "Documentaries", request |-> "fetchDocumentaries"]>>

\* the components the model mounts: every component that shares its request's
\* URL with another one, and one row with a URL of its own (Top Rated, Comedy
\* Movies, Romance Movies and Documentaries are MovieRows like Trending Now,
\* each with a URL no other component uses)
Components ==
  {"Banner", "NETFLIX ORIGINALS", "Trending Now", "Action Movies", "Horror Movies"}
RequestOf(c) == App[CHOOSE n \in DOMAIN App : App[n].comp = c].request
\* the fetchUrl prop of a component: the cache key of its call
fetchUrl(c) == requests[RequestOf(c)]

\* ------------------------------------------------------------- the network
\* what fetch(...) and response.json() come to
Outcomes ==
  [kind : {"ok"}, body : Bodies]
    \cup {[kind |-> k, body |-> Undefined] : k \in {"notOk", "networkError", "badBody"}}

Fulfilled(v) == [settled |-> "fulfilled", value |-> v]
Rejected == [settled |-> "rejected", value |-> Undefined]

\* the producer without the .catch handler: a failed fetch is a rejection
getResourceRethrow(outcome) ==
  IF outcome.kind = "ok" THEN Fulfilled(outcome.body) ELSE Rejected

\* the producer get(url) hands to preferStorage: the body, and on any failure
\* the value of the .catch handler, which logs and returns nothing
getResource(outcome) ==
  IF outcome.kind = "ok" THEN Fulfilled(outcome.body) ELSE Fulfilled(Undefined)

\* ----------------------------------------------------------------- state
VARIABLES
  store,   \* window.localStorage
  calls    \* the cache calls made so far, one per mounted component instance:
           \* the locals of preferStorage, the promise it returned, and the
           \* `subscribed` flag and state of the component that made the call

vars == <<store, calls>>

\* preferStorageStart returning the stored text itself, without JSON.parse
preferStorageStartNoParse(st, resourceKey) ==
  LET stored == getItem(st, resourceKey)
  IN  IF Truthy(stored)
      THEN [resourceKey |-> resourceKey, stored |-> stored, invoked |-> FALSE,
            pc |-> "fulfilled", network |-> "none", resource |-> Undefined,
            value |-> Str(stored.text)]
      ELSE [resourceKey |-> resourceKey, stored |-> stored, invoked |-> TRUE,
            pc |-> "await", network |-> "pending", resource |-> Undefined,
            value |-> Undefined]

\* preferStorageStart fetching afresh when the entry does not parse
preferStorageStartSelfHeal(st, resourceKey) ==
  LET stored == getItem(st, resourceKey)
      parsed == JSONparse(stored.text)
  IN  IF Truthy(stored) /\ parsed.ok
      THEN [resourceKey |-> resourceKey, stored |-> stored, invoked |-> FALSE,
            pc |-> "fulfilled", network |-> "none", resource |-> Undefined,
            value |-> parsed.value]
      ELSE [resourceKey |-> resourceKey, stored |-> stored, invoked |-> TRUE,
            pc |-> "await", network |-> "pending", resource |-> Undefined,
            value |-> Undefined]

\* preferStorageStart without the `if (stored) return`: every call fetches
preferStorageStartAlwaysFetch(st, resourceKey) ==
  [resourceKey |-> resourceKey, stored |-> getItem(st, resourceKey),
   invoked |-> TRUE, pc |-> "await", network |-> "pending",
   resource |-> Undefined, value |-> Undefined]

\* preferStorage up to its first suspension: the lookup, and on a truthy
\* entry the parse that settles the call
preferStorageStart(st, resourceKey) ==
  LET stored == getItem(st, resourceKey)
      parsed == JSONparse(stored.text)
  IN  IF Truthy(stored)
      THEN [resourceKey |-> resourceKey, stored |-> stored, invoked |-> FALSE,
            pc |-> IF parsed.ok THEN "fulfilled" ELSE "rejected",
            network |-> "none", resource |-> Undefined,
            value |-> parsed.value]
      ELSE [resourceKey |-> resourceKey, stored |-> stored, invoked |-> TRUE,
            pc |-> "await", network |-> "pending", resource |-> Undefined,
            value |-> Undefined]

\* preferStorage after `await getResource()`, given what the producer settled to
preferStorageResume(call, produced) ==
  IF produced.settled = "rejected"
  THEN [call EXCEPT !.pc = "rejected"]
  ELSE [call EXCEPT !.pc = "fulfilled", !.resource = produced.value,
                    !.value = produced.value]

\* preferStorageWrite keeping an entry that is already there
preferStorageWriteIfAbsent(st, call, produced) ==
  IF produced.settled = "rejected" \/ call.resourceKey \in DOMAIN st THEN st
  ELSE setItem(st, call.resourceKey, JSONstringify(produced.value))

\* the store after `await getResource()`
preferStorageWrite(st, call, produced) ==
  IF produced.settled = "rejected" THEN st
  ELSE setItem(st, call.resourceKey, JSONstringify(produced.value))

\* randomFrom(array), with Math.random() = draw / RandDen
randomFrom(array, draw) ==
  IF Len(array) = 0 THEN Null
  ELSE LET randomIndex == (draw * Len(array) - RandDen) \div RandDen
       IN  IF randomIndex + 1 \in DOMAIN array
           THEN [type |-> "item", id |-> array[randomIndex + 1]]
           ELSE Undefined

\* Handlers without the `if (!subscribed) return` guards
HandlersUnguarded(call, draw) ==
  IF call.pc = "fulfilled" /\ call.value.type = "object"
  THEN IF call.comp = "Banner"
       THEN [call EXCEPT !.movie = randomFrom(call.value.results, draw)]
       ELSE [call EXCEPT !.movies = call.value.results]
  ELSE IF call.comp = "Banner" THEN call ELSE [call EXCEPT !.movies = <<>>]

\* the .then/.catch handlers of the component's effect, run on the settled call
Handlers(call, draw) ==
  IF ~call.subscribed THEN call
  ELSE IF call.pc = "fulfilled" /\ call.value.type = "object"
  THEN IF call.comp = "Banner"
       THEN [call EXCEPT !.movie = randomFrom(call.value.results, draw)]
       ELSE [call EXCEPT !.movies = call.value.results]
  ELSE \* rejected, or `response.results` threw: the .catch handler
       IF call.comp = "Banner" THEN call ELSE [call EXCEPT !.movies = <<>>]

Init ==
  /\ store = <<>>
  /\ calls = <<>>

Mounted(c) == \E i \in DOMAIN calls : calls[i].comp = c /\ calls[i].subscribed

\* microtasks pending: a call settled at its start whose handlers have not run
Pending(i) == ~calls[i].invoked /\ ~calls[i].delivered

\* a component mounts: its effect sets subscribed and calls get(fetchUrl)
Mount(c) ==
  /\ Len(calls) < MaxCalls
  /\ ~Mounted(c)
  /\ calls' = Append(calls,
       preferStorageStart(store, fetchUrl(c)) @@
         [comp |-> c, subscribed |-> TRUE, delivered |-> FALSE,
          movies |-> <<>>, movie |-> Null])
  /\ UNCHANGED store

\* the handlers of a call that was settled at its start run
Then(i, draw) ==
  /\ i \in DOMAIN calls
  /\ Pending(i)
  /\ calls' = [calls EXCEPT ![i] = [Handlers(calls[i], draw) EXCEPT !.delivered = TRUE]]
  /\ UNCHANGED store

\* FetchComplete behind a queue: a call resumes only after every earlier one
FetchCompleteInOrder(i, outcome, draw) ==
  /\ i \in DOMAIN calls
  /\ calls[i].pc = "await"
  /\ \A j \in DOMAIN calls : ~Pending(j)
  /\ \A j \in DOMAIN calls : j < i => calls[j].pc # "await"
  /\ LET produced == getResource(outcome)
         resumed == [preferStorageResume(calls[i], produced) EXCEPT
                       !.network = IF outcome.kind = "ok" THEN "ok" ELSE "failed"]
     IN  /\ store' = preferStorageWrite(store, calls[i], produced)
         /\ calls' = [calls EXCEPT ![i] =
                        [Handlers(resumed, draw) EXCEPT !.delivered = TRUE]]

\* the network operation of a suspended call ends: preferStorage resumes,
\* writes, returns, and the component's handlers run
FetchComplete(i, outcome, draw) ==
  /\ i \in DOMAIN calls
  /\ calls[i].pc = "await"
  /\ \A j \in DOMAIN calls : ~Pending(j)
  /\ LET produced == getResource(outcome)
         resumed == [preferStorageResume(calls[i], produced) EXCEPT
                       !.network = IF outcome.kind = "ok" THEN "ok" ELSE "failed"]
     IN  /\ store' = preferStorageWrite(store, calls[i], produced)
         /\ calls' = [calls EXCEPT ![i] =
                        [Handlers(resumed, draw) EXCEPT !.delivered = TRUE]]

\* App is torn down: the cleanup of every mounted component's effect runs
Unmount ==
  /\ \E j \in DOMAIN calls : calls[j].subscribed
  /\ calls' = [j \in DOMAIN calls |-> [calls[j] EXCEPT !.subscribed = FALSE]]
  /\ UNCHANGED store

\* the page is reloaded: the calls in flight are discarded, the store is kept
Reload ==
  /\ \A j \in DOMAIN calls : ~Pending(j)
  /\ \E j \in DOMAIN calls : calls[j].subscribed \/ calls[j].pc = "await"
  /\ calls' = [j \in DOMAIN calls |->
                 [calls[j] EXCEPT !.subscribed = FALSE,
                                  !.pc = IF @ = "await" THEN "aborted" ELSE @]]
  /\ UNCHANGED store

Next ==
  \/ \E c \in Components : Mount(c)
  \/ \E i \in DOMAIN calls, draw \in 0..(RandDen - 1) : Then(i, draw)
  \/ \E i \in DOMAIN calls, outcome \in Outcomes, draw \in 0..(RandDen - 1) :
       FetchComplete(i, outcome, draw)
  \/ Unmount
  \/ Reload

Spec == Init /\ [][Next]_vars

\* the store as something other than the cache may have left it: one entry,
\* under the NETFLIX ORIGINALS url, that JSON.parse rejects
CorruptTexts ==
  {<<>>, <<"undefined">>, <<"{", "\"results\"", ":", "[", "1", ",">>}

InitCorrupt ==
  /\ \E t \in CorruptTexts : store = [k \in {requests.fetchNetflixOriginals} |-> t]
  /\ calls = <<>>

SpecCorrupt == InitCorrupt /\ [][Next]_vars

\* the store as an earlier page load may have left it: empty, or with the
\* entry a successful call for the NETFLIX ORIGINALS url wrote
InitLoaded ==
  /\ store \in {<<>>,
                 [k \in {requests.fetchNetflixOriginals} |->
                    ToDOMString(JSONstringify(Obj(<<1, 2>>)))]}
  /\ calls = <<>>

\* scheduling: a microtask that runs the handlers of a settled call always
\* runs; while calls other than the first are suspended at their fetch, the
\* network operation of one of them ends (the first call's may stall for ever)
LiveSpec ==
  /\ InitLoaded /\ [][Next]_vars
  /\ WF_vars(\E i \in 1..MaxCalls, draw \in 0..(RandDen - 1) : Then(i, draw))
  /\ WF_vars(\E i \in 2..MaxCalls, outcome \in Outcomes, draw \in 0..(RandDen - 1) :
               FetchComplete(i, outcome, draw))

\* ---------------------------------------------------------------- helpers
Calls == DOMAIN calls
\* the text setItem stores for a resource
Serialized(v) == ToDOMString(JSONstringify(v))
\* the calls made for a key
CallsFor(k) == {i \in Calls : calls[i].resourceKey = k}

\* ------------------------------------------------------------------ claims

\* C1: a call that finds an entry for its key in the store is fulfilled with
\* the deserialized stored value and never invokes its producer.
CacheHitReturnsStored ==
  \A i \in Calls :
    ~calls[i].stored.isNull =>
      /\ ~calls[i].invoked
      /\ calls[i].pc = "fulfilled"
      /\ JSONparse(calls[i].stored.text).ok
      /\ calls[i].value = JSONparse(calls[i].stored.text).value

\* two calls for a key and no other: the first missed and its fetch succeeded,
\* the second found the entry
SequentialPair(i, j) ==
  /\ i < j
  /\ calls[i].resourceKey = calls[j].resourceKey
  /\ CallsFor(calls[i].resourceKey) = {i, j}
  /\ calls[i].stored.isNull
  /\ calls[i].network = "ok"
  /\ ~calls[j].stored.isNull

\* C2: when a key had no entry and exactly two calls are made for it, the
\* second after the first has completed with a JSON resource r, the producer
\* is invoked once, the first call writes the serialization of r and returns
\* r, and the second call returns r without invoking its producer.
SequentialCallsFetchOnce ==
  \A i, j \in Calls :
    SequentialPair(i, j) =>
      LET r == calls[i].resource
          k == calls[i].resourceKey
      IN  /\ r \in Bodies
          /\ calls[i].invoked /\ ~calls[j].invoked
          /\ calls[i].pc = "fulfilled" /\ calls[i].value = r
          /\ k \in DOMAIN store /\ store[k] = JSONstringify(r).text
          /\ calls[j].pc = "fulfilled" /\ calls[j].value = r

SequentialCallsWitness ==
  \E i, j \in Calls :
    /\ SequentialPair(i, j)
    /\ calls[i].resource = Obj(<<1, 2>>)
    /\ calls[j].value = Obj(<<1, 2>>)
    /\ calls[j].delivered

\* C3 (as stated): for every key at most one call invokes the producer.
AtMostOneFetchPerKey ==
  \A i, j \in Calls :
    (i # j /\ calls[i].resourceKey = calls[j].resourceKey) =>
      ~(calls[i].invoked /\ calls[j].invoked)

\* C3 (amended): a call invokes the producer only if it begins while the
\* store has no entry for its key, and entries are never removed: once the
\* first write for a key has landed, no later call fetches it.
NoFetchOnceStored ==
  [][/\ DOMAIN store \subseteq DOMAIN store'
     /\ \A i \in DOMAIN calls' :
          (i \notin Calls /\ calls'[i].invoked) =>
            calls'[i].resourceKey \notin DOMAIN store]_vars

NoFetchOnceStoredWitness ==
  \E i, j \in Calls :
    /\ i < j
    /\ calls[i].resourceKey = calls[j].resourceKey
    /\ calls[i].invoked /\ calls[i].pc = "fulfilled"
    /\ ~calls[j].stored.isNull /\ ~calls[j].invoked

\* C4: when the network operation of a call fails, the call is rejected and
\* no entry is written for its key.
FailedFetchNotCached ==
  \A i \in Calls :
    (calls[i].network = "failed" /\ CallsFor(calls[i].resourceKey) = {i}) =>
      /\ calls[i].pc = "rejected"
      /\ calls[i].resourceKey \notin DOMAIN store

\* C5 (as stated): once a key has an entry, its text never changes.
StoredValueNeverChanges ==
  [][\A k \in DOMAIN store : k \in DOMAIN store' /\ store'[k] = store[k]]_vars

\* a call for k that missed and is still suspended at its fetch
InFlight(k) == {i \in CallsFor(k) : calls[i].pc = "await"}

\* C5 (amended): an entry is never removed, and its text changes only when a
\* call for the key that began before the first write (it found no entry)
\* completes and writes its own result; once no such call is in flight the
\* entry never changes, and every call reads the entry as it then is.
StoredValueChangesOnlyByEarlierMisses ==
  [][/\ \A k \in DOMAIN store :
          /\ k \in DOMAIN store'
          /\ InFlight(k) = {} => store'[k] = store[k]
          /\ store'[k] # store[k] =>
               \E i \in InFlight(k) :
                 /\ calls[i].stored.isNull
                 /\ calls'[i].pc = "fulfilled"
                 /\ store'[k] = Serialized(calls'[i].resource)
     /\ \A i \in DOMAIN calls' :
          (i \notin Calls /\ calls'[i].resourceKey \in DOMAIN store) =>
            /\ calls'[i].stored.text = store[calls'[i].resourceKey]
            /\ ~calls'[i].invoked
            /\ calls'[i].pc = "fulfilled" =>
                 Serialized(calls'[i].value) = store[calls'[i].resourceKey]]_vars

StoredValueOverwrittenWitness ==
  \E i, j \in Calls :
    /\ i # j
    /\ calls[i].resourceKey = calls[j].resourceKey
    /\ calls[i].stored.isNull /\ calls[j].stored.isNull
    /\ calls[i].network = "ok" /\ calls[j].network = "ok"
    /\ calls[i].resource # calls[j].resource
    /\ InFlight(calls[i].resourceKey) = {}

\* C6: two calls for a key that both began while it had no entry both invoke
\* their producer; each that completes is fulfilled with its own producer's
\* result and leaves the serialization of that result in the store, whatever
\* the other did, so the entry is that of the last write, and completing
\* one call changes nothing of the other.
ConcurrentMissesLastWriteWins ==
  [][\A i, j \in Calls :
       (/\ i # j
        /\ calls[i].resourceKey = calls[j].resourceKey
        /\ calls[i].stored.isNull /\ calls[j].stored.isNull) =>
         /\ calls[i].invoked /\ calls[j].invoked
         /\ (calls[i].pc = "await" /\ calls'[i].pc \in {"fulfilled", "rejected"}) =>
              /\ calls'[i].pc = "fulfilled"
              /\ calls'[i].value = calls'[i].resource
              /\ calls'[i].network = "ok" => calls'[i].resource \in Bodies
              /\ calls'[i].network # "ok" => calls'[i].resource = Undefined
              /\ store'[calls[i].resourceKey] = Serialized(calls'[i].resource)
              /\ calls'[j] = calls[j]
         /\ (calls'[i].pc = "fulfilled" /\ calls'[j].pc = "fulfilled"
               /\ CallsFor(calls[i].resourceKey) = {i, j}) =>
              store'[calls[i].resourceKey] \in
                {Serialized(calls'[i].resource), Serialized(calls'[j].resource)}]_vars

ConcurrentMissesWitness ==
  \E i, j \in Calls :
    /\ i < j
    /\ calls[i].resourceKey = calls[j].resourceKey
    /\ calls[i].stored.isNull /\ calls[j].stored.isNull
    /\ calls[i].pc = "fulfilled" /\ calls[j].pc = "fulfilled"
    /\ calls[i].resource = Obj(<<1, 2>>) /\ calls[j].resource = Obj(<<>>)
    /\ store[calls[i].resourceKey] = Serialized(Obj(<<1, 2>>))

\* C7: after a component is torn down its state is never changed again; the
\* teardown leaves its call suspended at the fetch, and when that call then
\* completes its result is still written to the store under the key.
TeardownKeepsWriteDropsDelivery ==
  [][\A i \in Calls :
       /\ ~calls[i].subscribed =>
            /\ calls'[i].movies = calls[i].movies
            /\ calls'[i].movie = calls[i].movie
            /\ (calls[i].pc = "await" /\ calls'[i].pc = "fulfilled") =>
                 store'[calls[i].resourceKey] = Serialized(calls'[i].resource)
       /\ (Unmount /\ calls[i].pc = "await") => calls'[i].pc = "await"]_vars

TeardownWitness ==
  \E i \in Calls :
    /\ ~calls[i].subscribed
    /\ calls[i].invoked /\ calls[i].pc = "fulfilled"
    /\ calls[i].resource = Obj(<<1, 2>>)
    /\ calls[i].comp # "Banner" /\ calls[i].movies = <<>>
    /\ store[calls[i].resourceKey] = Serialized(Obj(<<1, 2>>))

Corrupted(stored) == ~stored.isNull /\ ~JSONparse(stored.text).ok

Completed(j) ==
  j \in Calls /\ \/ calls[j].pc \in {"fulfilled", "rejected"} /\ calls[j].delivered
                 \/ calls[j].pc = "aborted"

\* C9: whether or not the fetch of the first call ever ends, every other
\* call eventually completes; and the store is written only by a call that
\* resumes from its fetch, so a call that stays suspended writes nothing.
StalledFetchBlocksOnlyItsCaller ==
  /\ \A j \in 2..MaxCalls : (j \in Calls) ~> Completed(j)
  /\ [][store' # store =>
          \E w \in Calls :
            /\ calls[w].pc = "await" /\ calls'[w].pc = "fulfilled"
            /\ store' = setItem(store, calls[w].resourceKey,
                                JSONstringify(calls'[w].resource))]_vars

StalledFetchWitness ==
  /\ 1 \in Calls /\ 2 \in Calls
  /\ calls[1].pc = "await"
  /\ calls[1].resourceKey \notin DOMAIN store
  /\ calls[2].pc = "fulfilled" /\ calls[2].delivered
  /\ calls[2].invoked
  /\ calls[2].resourceKey \in DOMAIN store

\* C10: two calls made for distinct entries of the requests table use
\* distinct cache keys.
CacheKeysCollisionFree ==
  \A i, j \in Calls :
    RequestOf(calls[i].comp) # RequestOf(calls[j].comp) =>
      calls[i].resourceKey # calls[j].resourceKey

\* C11: a call whose network operation fails is fulfilled with undefined and
\* stores the text "undefined" under its url; a call that begins while that
\* entry is there finds it and does not invoke the network fetch.
FailedFetchCachedAsUndefined ==
  [][/\ \A i \in Calls :
          (calls[i].pc = "await" /\ calls'[i].network = "failed") =>
            /\ calls'[i].pc = "fulfilled"
            /\ calls'[i].value = Undefined
            /\ store'[calls[i].resourceKey] = <<"undefined">>
     /\ \A i \in DOMAIN calls' :
          (/\ i \notin Calls
           /\ calls'[i].resourceKey \in DOMAIN store
           /\ store[calls'[i].resourceKey] = <<"undefined">>) =>
            /\ calls'[i].stored = [isNull |-> FALSE, text |-> <<"undefined">>]
            /\ ~calls'[i].invoked
            /\ calls'[i].network = "none"
            /\ store' = store]_vars

FailedFetchCachedWitness ==
  \E i, j \in Calls :
    /\ i < j
    /\ calls[i].resourceKey = calls[j].resourceKey
    /\ calls[i].network = "failed" /\ calls[i].pc = "fulfilled"
    /\ calls[j].stored.text = <<"undefined">>
    /\ ~calls[j].invoked /\ calls[j].delivered
    /\ store[calls[i].resourceKey] = <<"undefined">>

Item(id) == [type |-> "item", id |-> id]

\* C12: for the array a Banner's call has delivered, randomFrom returns null
\* if it is empty and otherwise, for every draw, an element of the array,
\* and every element is returned for some draw; the movie a mounted Banner
\* then shows is null or an element of that array.
RandomFromPicksElement ==
  \A i \in Calls :
    (/\ calls[i].comp = "Banner"
     /\ calls[i].delivered
     /\ calls[i].pc = "fulfilled" /\ calls[i].value.type = "object") =>
      LET array == calls[i].value.results
      IN  /\ array = <<>> =>
               \A draw \in 0..(RandDen - 1) : randomFrom(array, draw) = Null
          /\ array # <<>> =>
               /\ \A draw \in 0..(RandDen - 1) :
                    \E n \in DOMAIN array : randomFrom(array, draw) = Item(array[n])
               /\ \A n \in DOMAIN array :
                    \E draw \in 0..(RandDen - 1) :
                      randomFrom(array, draw) = Item(array[n])
          /\ calls[i].subscribed =>
               IF array = <<>> THEN calls[i].movie = Null
               ELSE \E n \in DOMAIN array : calls[i].movie = Item(array[n])
====
